---- MODULE Spec2Model ----
(***************************************************************************)
(* State-machine model of server.py: the 7-Zip based delivery server for   *)
(* the split archive CS1.6_NextClient (.z01 .. .zNN plus the final .zip).  *)
(*                                                                         *)
(* The file system (part files, .cache, .cache/extract and                 *)
(* .cache/__concat_tmp__), the wall clock and the 7z tool are the shared   *)
(* state; every request of the ThreadingHTTPServer runs in a worker whose  *)
(* position in its handler is pc[w].  One action is one file-system        *)
(* operation (or one purely local computation) of the handler.             *)
(***************************************************************************)
EXTENDS Integers, Sequences, FiniteSets, TLC

\* ---------------------------------------------------------------- bounds
\* Number of .zNN volumes (26 in server.py:20, scaled down for checking).
PART_COUNT == 2
\* copyfileobj / stream chunk length (2 MiB in server.py:22, scaled down).
CHUNK_SIZE == 2
\* Requests served in one behaviour.
MaxReq == 2
\* Clock ticks and operator interventions (touch, rename, delete, ...) in
\* one behaviour.
MaxEnv == 2
\* Files of the trees pick_main_artifact is applied to.
MaxFiles == 3
\* Largest time a file can be dated with.
MaxTime == MaxEnv

\* The handler threads of ThreadingHTTPServer that are observed.
Workers == {1, 2}

\* ------------------------------------------------------------ part files
part_path(i) == i
last_zip_path == PART_COUNT + 1
\* [*map(part_path, range(1, PART_COUNT+1)), last_zip_path()]
PartPaths == [i \in 1..(PART_COUNT + 1) |->
                 IF i <= PART_COUNT THEN part_path(i) ELSE last_zip_path]
Files == {PartPaths[i] : i \in DOMAIN PartPaths}
\* Relative path of a part below PUBLIC_DIR: one name per part file.
pp(p) == p

\* Bytes of each part file as laid down by the deployment.
DefaultData == [f \in Files |-> IF f = last_zip_path THEN <<9>> ELSE <<f, f + 10>>]
\* Contents a part file may have (for the concatenation runs).
DataChoices == {<< >>, <<1>>, <<2, 3, 4>>}

\* ------------------------------------------------------------ the archive
\* What 7z finds in the multi-volume archive: members in archive order,
\* each a regular file, either directly below the output directory
\* (top = TRUE) or inside a sub-directory.
Archives ==
    { << [name |-> "a", top |-> TRUE,  size |-> 1], [name |-> "b", top |-> TRUE,  size |-> 2] >>,
      << [name |-> "a", top |-> FALSE, size |-> 2], [name |-> "b", top |-> FALSE, size |-> 2] >>,
      << [name |-> "a", top |-> FALSE, size |-> 0], [name |-> "b", top |-> TRUE,  size |-> 0] >>,
      << >> }

\* A configuration value that tests false ("if PREFERRED_ARTIFACT_NAME:").
None == ""
\* server.py:30
PREFERRED_ARTIFACT_NAME == None

VARIABLES
    now,        \* wall clock
    exists,     \* exists[f]: part file f is present in files/
    mtime,      \* mtime[f]: modification time of part file f
    lfs,        \* lfs[f]: part file f starts with the Git LFS signature
    partData,   \* partData[f]: bytes of part file f
    have7z,     \* the 7z executable can be run
    archive,    \* members of the archive the parts make up
    archiveOK,  \* 7z can read the archive to its end
    cacheDir,   \* .cache exists
    dirExists,  \* .cache/extract exists
    dirMtime,   \* modification time of .cache/extract
    tree,       \* members present below .cache/extract (indices into archive)
    tmpIno,     \* inode .cache/__concat_tmp__ names (NoIno: no such file)
    ino,        \* ino[i]: bytes of inode i
    pc,         \* pc[w]: position of worker w in its handler
    kind,       \* kind[w]: route worker w serves
    pmt,        \* pmt[w]: parts_mtime sampled by worker w
    k,          \* k[w]: members written by w's 7z run / parts copied by w /
                \* bytes read by w's stream_file
    zerr,       \* zerr[w]: w's 7z run has reported an error
    fd,         \* fd[w]: inode w has open for writing or reading
    main,       \* main[w]: member picked by pick_main_artifact
    resp,       \* resp[w]: response written to w's client
    touchAt,    \* history: time of the touch made, between requests, since the
                \* cache check last decided (NoTouch: none)
    published,  \* history: an extraction has completed and been stamped, and
                \* the operator has not deleted the cache since
    conn,       \* conn[w]: the client of w's request is still connected
    rd,         \* rd[w]: stream_file has w's file open for reading
    listing,    \* listing[w]: files os.walk has listed for w's report
    preferred,  \* PREFERRED_ARTIFACT_NAME
    modAt,      \* history: time of the latest modification of a part made
                \* while the extraction behind the cache was running
    reqs,       \* requests started
    envs        \* operator interventions made

fsvars == <<exists, mtime, lfs, partData, have7z, archive, archiveOK>>
cachevars == <<cacheDir, dirExists, dirMtime, tree>>
tmpvars == <<tmpIno, ino, fd>>
wvars == <<pc, kind, pmt, k, zerr, main, resp>>
hvars == <<touchAt, published>>
svars == <<conn, rd, listing, preferred, modAt>>
vars == <<now, fsvars, cachevars, tmpvars, wvars, hvars, svars, reqs, envs>>

NoIno == 0
NoTouch == 0 - 1
Routes == {"download", "rebuild", "concat", "diag", "health"}
\* Nothing written to the client yet.  heads: the status lines written, in
\* order; code: the last of them; size: the Content-Length announced by
\* stream_file; body: the bytes stream_file has written; text: the body of
\* an _ok_text answer; err, missing: the exception the answer reports.
NoResp == [code |-> 0, heads |-> <<>>, err |-> "", missing |-> <<>>, main |-> 0,
           size |-> 0, body |-> <<>>, text |-> ""]

\* ------------------------------------------------------------ helpers
Max(S) == CHOOSE x \in S : \A y \in S : y <= x
Range(s) == {s[i] : i \in DOMAIN s}
Members == DOMAIN archive
IsTop(m) == archive[m].top

RECURSIVE SetToSeq(_)
\* The elements of a finite set of integers in ascending order.
SetToSeq(S) ==
    IF S = {} THEN << >>
    ELSE LET x == CHOOSE y \in S : \A z \in S : y <= z
         IN  <<x>> \o SetToSeq(S \ {x})

\* ------------------------------------------------------------ part locator
\* ensure_parts_exist: the relative paths of the absent files, in path order;
\* the caller raises RuntimeError("Faltan archivos: ...") when it is not empty.
ensure_parts_exist_first(ex) ==
    LET absent == SelectSeq(PartPaths, LAMBDA p : ~ex[p])
    IN  IF absent = << >> THEN << >> ELSE << pp(absent[1]) >>
ensure_parts_exist(ex) ==
    LET absent == SelectSeq(PartPaths, LAMBDA p : ~ex[p])
    IN  [i \in DOMAIN absent |-> pp(absent[i])]

\* ensure_not_lfs: the parts whose first bytes are the Git LFS signature
\* (file_head of an absent file is b"", which is no suspect).
ensure_not_lfs(ex, lf) ==
    LET suspects == SelectSeq(PartPaths, LAMBDA p : ex[p] /\ lf[p])
    IN  [i \in DOMAIN suspects |-> pp(suspects[i])]

\* latest_parts_mtime: max(os.path.getmtime(p) for p in paths).
latest_parts_mtime_zip_only(mt) == mt[last_zip_path]
latest_parts_mtime(mt) == Max({mt[PartPaths[i]] : i \in DOMAIN PartPaths})

\* ------------------------------------------------------------ rebuild cache
\* Lines 84-86: the extraction is up to date and os.listdir(EXTRACT_DIR)
\* holds at least one regular file (sub-directories are not files).
cache_is_current(dm, parts_mtime, tr) ==
    dm >= parts_mtime /\ \E m \in tr : IsTop(m)

\* ------------------------------------------------------------ artifact selector
\* os.walk(folder), top-down: the files of the root first, then those of
\* the sub-directories.
Walk(tr) ==
    SetToSeq({m \in tr : IsTop(m)}) \o SetToSeq({m \in tr : ~IsTop(m)})

\* The same loop with ">=" for ">": the last of the largest files.
RECURSIVE PickLargest_last(_, _, _, _)
PickLargest_last(walk, i, best, best_size) ==
    IF i > Len(walk) THEN best
    ELSE LET sz == archive[walk[i]].size
         IN  IF sz >= best_size
             THEN PickLargest_last(walk, i + 1, walk[i], sz)
             ELSE PickLargest_last(walk, i + 1, best, best_size)

RECURSIVE PickLargest(_, _, _, _)
\* Lines 123-129: keep the first file whose size is strictly larger.
PickLargest(walk, i, best, best_size) ==
    IF i > Len(walk) THEN best
    ELSE LET sz == archive[walk[i]].size
         IN  IF sz > best_size
             THEN PickLargest(walk, i + 1, walk[i], sz)
             ELSE PickLargest(walk, i + 1, best, best_size)

\* str.lower() on the file names that occur.
lower(name) ==
    CASE name = "A" -> "a"
      [] name = "B" -> "b"
      [] OTHER -> name

RECURSIVE FindByName(_, _, _)
\* Lines 117-120: the first file of the walk whose lowered name is target
\* (0: the loops end without a return).
FindByName(walk, i, target) ==
    IF i > Len(walk) THEN 0
    ELSE IF lower(archive[walk[i]].name) = target THEN walk[i]
    ELSE FindByName(walk, i + 1, target)

\* pick_main_artifact(folder): by preferred name when one is configured and
\* found, else the largest file; 0 stands for "best is None" (RuntimeError:
\* the extraction produced no files).
pick_main_artifact(tr) ==
    LET named == IF preferred # None
                 THEN FindByName(Walk(tr), 1, lower(preferred))
                 ELSE 0
    IN  IF named # 0 THEN named ELSE PickLargest(Walk(tr), 1, 0, -1)

\* ------------------------------------------------------------ delivery handler
\* The status every "except Exception" branch of the handlers answers with.
ErrorStatus(err) == 500

Idle(w) == pc[w] \in {"idle", "done"}
Quiet == \A w \in Workers : Idle(w)

\* The worker-local values a finished request leaves behind.
Finish(w, r) ==
    /\ pc' = [pc EXCEPT ![w] = "done"]
    /\ resp' = [resp EXCEPT ![w] = r]
    /\ pmt' = [pmt EXCEPT ![w] = 0]
    /\ k' = [k EXCEPT ![w] = 0]
    /\ zerr' = [zerr EXCEPT ![w] = FALSE]
    /\ main' = [main EXCEPT ![w] = 0]

\* _ok_text(text, code) towards a connected client: one more status line
\* and header block, then the text.
ok_text(r, text, code) ==
    [r EXCEPT !.code = code, !.heads = Append(@, code), !.text = text]

\* _ok_text taken to write whether or not the client is there.
Answer_connected(w, text, code) == ok_text(resp[w], text, code)

\* self._ok_text(text, code) after whatever the request has written
\* already: a client that is gone makes the write raise BrokenPipeError,
\* which lines 233-234 swallow.
Answer(w, text, code) ==
    IF conn[w] THEN ok_text(resp[w], text, code) ELSE resp[w]

\* The answer of an "except Exception" branch of the handlers.
ErrorAnswer(w, e) ==
    [Answer(w, "ERROR", ErrorStatus(e)) EXCEPT !.err = e]

\* self._ok_text(f"ERROR: {e}", code=500)
Fail(w, e, lst) ==
    Finish(w, [ErrorAnswer(w, e) EXCEPT !.missing = lst])

Goto(w, p) == pc' = [pc EXCEPT ![w] = p]

\* ------------------------------------------------------------ requests
\* do_GET dispatches a new request to a handler thread.
Begin(w, r) ==
    /\ Idle(w)
    /\ reqs < MaxReq
    /\ reqs' = reqs + 1
    /\ kind' = [kind EXCEPT ![w] = r]
    /\ resp' = [resp EXCEPT ![w] = NoResp]
    /\ conn' = [conn EXCEPT ![w] = TRUE]
    /\ pc' = [pc EXCEPT ![w] = CASE r = "concat" -> "c_mkcache"
                                [] r = "diag" -> "d_7z"
                                [] r = "health" -> "health"
                                [] OTHER -> "ensure_parts"]
    /\ UNCHANGED <<now, fsvars, cachevars, tmpvars, pmt, k, zerr, main, hvars,
                   rd, listing, preferred, modAt, envs>>

\* ensure_parts_exist() at the head of extract_with_7z and of concat_volumes.
EnsurePartsExist(w) ==
    /\ pc[w] = "ensure_parts"
    /\ LET missing == ensure_parts_exist(exists)
       IN  IF missing # << >>
           THEN Fail(w, "MissingParts", missing) /\ UNCHANGED kind
           ELSE /\ Goto(w, IF kind[w] = "concat" THEN "c_open" ELSE "ensure_not_lfs")
                /\ UNCHANGED <<kind, pmt, k, zerr, main, resp>>
    /\ UNCHANGED <<now, svars, fsvars, cachevars, tmpvars, hvars, reqs, envs>>

\* ensure_not_lfs() in extract_with_7z.
EnsureNotLfs(w) ==
    /\ pc[w] = "ensure_not_lfs"
    /\ LET suspects == ensure_not_lfs(exists, lfs)
       IN  IF suspects # << >>
           THEN Fail(w, "PlaceholderParts", suspects) /\ UNCHANGED kind
           ELSE Goto(w, "ensure_7z") /\ UNCHANGED <<kind, pmt, k, zerr, main, resp>>
    /\ UNCHANGED <<now, svars, fsvars, cachevars, tmpvars, hvars, reqs, envs>>

\* os.makedirs(CACHE_DIR, exist_ok=True) ahead of ensure_7z().
Ensure7z_after_makedirs(w) ==
    /\ pc[w] = "ensure_7z"
    /\ cacheDir' = TRUE
    /\ IF ~have7z
       THEN Fail(w, "ToolUnavailable", << >>) /\ UNCHANGED kind
       ELSE Goto(w, "parts_mtime") /\ UNCHANGED <<kind, pmt, k, zerr, main, resp>>
    /\ UNCHANGED <<now, svars, fsvars, dirExists, dirMtime, tree, tmpvars, hvars, reqs, envs>>

\* ensure_7z() followed by os.makedirs(CACHE_DIR, exist_ok=True).
Ensure7z(w) ==
    /\ pc[w] = "ensure_7z"
    /\ IF ~have7z
       THEN Fail(w, "ToolUnavailable", << >>) /\ UNCHANGED <<kind, cacheDir>>
       ELSE /\ Goto(w, "parts_mtime")
            /\ cacheDir' = TRUE
            /\ UNCHANGED <<kind, pmt, k, zerr, main, resp>>
    /\ UNCHANGED <<now, svars, fsvars, dirExists, dirMtime, tree, tmpvars, hvars, reqs, envs>>

\* parts_mtime = latest_parts_mtime(); getmtime of an absent part raises.
LatestPartsMtime(w) ==
    /\ pc[w] = "parts_mtime"
    /\ IF \E f \in Files : ~exists[f]
       THEN Fail(w, "FileNotFound", << >>) /\ UNCHANGED kind
       ELSE /\ pmt' = [pmt EXCEPT ![w] = latest_parts_mtime(mtime)]
            /\ Goto(w, "check")
            /\ UNCHANGED <<kind, k, zerr, main, resp>>
    /\ UNCHANGED <<now, svars, fsvars, cachevars, tmpvars, hvars, reqs, envs>>

\* _handle_rebuild calls extract_with_7z(force=True), _handle_download_raw
\* extract_with_7z(force=False).
force_never(w) == FALSE
force(w) == kind[w] = "rebuild"

\* Lines 82-89: reuse EXTRACT_DIR when it is a directory, the request is not
\* forced and the cache is current; any exception falls through to a rebuild.
CacheCheck(w) ==
    /\ pc[w] = "check"
    /\ IF dirExists /\ ~force(w) /\ cache_is_current(dirMtime, pmt[w], tree)
       THEN Goto(w, "hit")
       ELSE Goto(w, "rmtree")
    /\ UNCHANGED <<now, svars, fsvars, cachevars, tmpvars, kind, pmt, k, zerr, main, resp, hvars,
                   reqs, envs>>

\* Lines 92-93: shutil.rmtree(EXTRACT_DIR, ignore_errors=True) if it is a directory.
RmTree(w) ==
    /\ pc[w] = "rmtree"
    /\ dirExists' = FALSE
    /\ dirMtime' = 0
    /\ tree' = {}
    /\ Goto(w, "makedirs")
    /\ touchAt' = NoTouch
    /\ modAt' = NoTouch
    /\ UNCHANGED <<now, fsvars, cacheDir, tmpvars, kind, pmt, k, zerr, main, resp,
                   published, conn, rd, listing, preferred, reqs, envs>>

\* Line 94: os.makedirs(EXTRACT_DIR, exist_ok=True) creates the missing
\* directories of the path; a directory it creates is stamped with now.
MakeDirs(w) ==
    /\ pc[w] = "makedirs"
    /\ cacheDir' = TRUE
    /\ dirExists' = TRUE
    /\ dirMtime' = IF dirExists THEN dirMtime ELSE now
    /\ Goto(w, "run7z")
    /\ UNCHANGED <<now, svars, fsvars, tree, tmpvars, kind, pmt, k, zerr, main, resp,
                   hvars, reqs, envs>>

\* Lines 97-101: subprocess.run cannot start 7z.
Start7zFails(w) ==
    /\ pc[w] = "run7z"
    /\ k[w] = 0
    /\ ~have7z
    /\ Fail(w, "CannotRun7z", << >>)
    /\ UNCHANGED <<now, svars, fsvars, cachevars, tmpvars, kind, hvars, reqs, envs>>

\* The running 7z writes the next member below -o{EXTRACT_DIR}.  A member
\* of a sub-directory has its directories created on the way; a member of
\* the output directory cannot be opened when that directory is gone.  An
\* unreadable archive never yields its last member.
Write7zMember(w) ==
    /\ pc[w] = "run7z"
    /\ have7z \/ k[w] > 0
    /\ k[w] < Len(archive)
    /\ archiveOK \/ k[w] + 1 < Len(archive)
    /\ LET m == k[w] + 1
       IN  IF IsTop(m) /\ ~dirExists
           THEN /\ zerr' = [zerr EXCEPT ![w] = TRUE]
                /\ UNCHANGED cachevars
           ELSE /\ tree' = tree \cup {m}
                /\ dirExists' = TRUE
                /\ cacheDir' = TRUE
                /\ dirMtime' = IF IsTop(m) \/ ~dirExists \/ ~\E n \in tree : ~IsTop(n)
                               THEN now ELSE dirMtime
                /\ UNCHANGED zerr
    /\ k' = [k EXCEPT ![w] = k[w] + 1]
    /\ UNCHANGED <<now, svars, fsvars, tmpvars, pc, kind, pmt, main, resp, hvars, reqs, envs>>

\* 7z exits: with code 0 after the last member of a readable archive when
\* no file failed, otherwise non-zero (lines 103-104 raise).
Exit7z(w) ==
    /\ pc[w] = "run7z"
    /\ have7z \/ k[w] > 0
    /\ ~archiveOK \/ k[w] = Len(archive)
    /\ IF archiveOK /\ ~zerr[w]
       THEN Goto(w, "utime") /\ UNCHANGED <<pmt, k, zerr, main, resp>>
       ELSE Fail(w, "SevenZipFailed", << >>)
    /\ UNCHANGED <<now, svars, fsvars, cachevars, tmpvars, kind, hvars, reqs, envs>>

\* The directory stamped with the time the extraction ended.
Utime_now(w) ==
    /\ pc[w] = "utime"
    /\ IF dirExists
       THEN /\ dirMtime' = now
            /\ published' = TRUE
            /\ Goto(w, "pick")
            /\ UNCHANGED <<pmt, k, zerr, main, resp>>
       ELSE Fail(w, "FileNotFound", << >>) /\ UNCHANGED <<dirMtime, published>>
    /\ UNCHANGED <<now, svars, fsvars, cacheDir, dirExists, tree, tmpvars, kind, touchAt, reqs, envs>>

\* Line 106: os.utime(EXTRACT_DIR, (parts_mtime, parts_mtime)).
Utime(w) ==
    /\ pc[w] = "utime"
    /\ IF dirExists
       THEN /\ dirMtime' = pmt[w]
            /\ published' = TRUE
            /\ Goto(w, "pick")
            /\ UNCHANGED <<pmt, k, zerr, main, resp>>
       ELSE Fail(w, "FileNotFound", << >>) /\ UNCHANGED <<dirMtime, published>>
    /\ UNCHANGED <<now, svars, fsvars, cacheDir, dirExists, tree, tmpvars, kind, touchAt, reqs, envs>>

\* mainf = pick_main_artifact(folder); /rebuild then answers
\* "REBUILT OK\nMain: <path> (<size> bytes)".
PickMain(w) ==
    /\ pc[w] \in {"hit", "pick"}
    /\ LET best == IF dirExists THEN pick_main_artifact(tree) ELSE 0
       IN  IF best = 0
           THEN Fail(w, "EmptyExtraction", << >>)
           ELSE IF kind[w] = "rebuild"
                THEN Finish(w, [Answer(w, "REBUILT OK", 200) EXCEPT
                                    !.main = best, !.size = archive[best].size])
                ELSE /\ main' = [main EXCEPT ![w] = best]
                     /\ Goto(w, "stream")
                     /\ UNCHANGED <<pmt, k, zerr, resp>>
    /\ touchAt' = NoTouch
    /\ UNCHANGED <<now, svars, fsvars, cachevars, tmpvars, kind, published, reqs, envs>>

\* stream_file(self, mainf, basename(mainf)): the picked file is sized,
\* opened and written to the client.
StreamMain(w) ==
    /\ pc[w] = "stream"
    /\ IF dirExists /\ main[w] \in tree
       THEN Finish(w, [NoResp EXCEPT !.code = 200, !.heads = <<200>>, !.main = main[w],
                                     !.size = archive[main[w]].size])
       ELSE Fail(w, "FileNotFound", << >>)
    /\ UNCHANGED <<now, svars, fsvars, cachevars, tmpvars, kind, hvars, reqs, envs>>

\* ------------------------------------------------------------ raw concatenation
\* The files concat_volumes copies, in the order it copies them: the loop
\* over range(1, PART_COUNT + 1), then last_zip_path().
concat_sources_zip_first ==
    <<last_zip_path>> \o [i \in 1..PART_COUNT |-> part_path(i)]
concat_sources ==
    [i \in 1..PART_COUNT |-> part_path(i)] \o <<last_zip_path>>

\* file.write(data) at offset pos of a file holding c (a gap reads as zeros).
WriteAt(c, pos, data) ==
    LET n == IF Len(c) > pos + Len(data) THEN Len(c) ELSE pos + Len(data)
    IN  [i \in 1..n |->
            IF i > pos /\ i <= pos + Len(data) THEN data[i - pos]
            ELSE IF i <= Len(c) THEN c[i] ELSE 0]

RECURSIVE copyfileobj(_, _, _, _, _)
\* shutil.copyfileobj(f, out, CHUNK_SIZE): read at most length bytes at
\* offset off of src and write them at offset pos of dst, until a read
\* returns nothing.
copyfileobj(src, off, dst, pos, length) ==
    IF off >= Len(src) THEN dst
    ELSE LET n == IF Len(src) - off < length THEN Len(src) - off ELSE length
             buf == SubSeq(src, off + 1, off + n)
         IN  copyfileobj(src, off + n, WriteAt(dst, pos, buf), pos + n, length)

RECURSIVE SizeOfFirst(_, _)
\* Bytes of the first n files of the sequence srcs.
SizeOfFirst(srcs, n) ==
    IF n = 0 THEN 0 ELSE SizeOfFirst(srcs, n - 1) + Len(partData[srcs[n]])

\* An inode number no directory entry and no open file refers to.
FreeIno == CHOOSE i \in Workers : i # tmpIno /\ \A v \in Workers : fd[v] # i

\* Line 259: os.makedirs(CACHE_DIR, exist_ok=True).
ConcatMkCache(w) ==
    /\ pc[w] = "c_mkcache"
    /\ cacheDir' = TRUE
    /\ Goto(w, "ensure_parts")
    /\ UNCHANGED <<now, svars, fsvars, dirExists, dirMtime, tree, tmpvars, kind, pmt, k, zerr, main,
                   resp, hvars, reqs, envs>>

\* Lines 137-138: makedirs(dirname(out_path)); open(out_path, "wb") creates
\* the file or truncates the one the path names.
ConcatOpen(w) ==
    /\ pc[w] = "c_open"
    /\ cacheDir' = TRUE
    /\ LET i == IF tmpIno = NoIno THEN FreeIno ELSE tmpIno
       IN  /\ tmpIno' = i
           /\ ino' = [ino EXCEPT ![i] = << >>]
           /\ fd' = [fd EXCEPT ![w] = i]
    /\ Goto(w, "c_copy")
    /\ UNCHANGED <<now, svars, fsvars, dirExists, dirMtime, tree, kind, pmt, k, zerr, main,
                   resp, hvars, reqs, envs>>

\* The inode stays while a directory entry or an open file refers to it.
Release(inodes, i, entry, fds) ==
    IF i # NoIno /\ entry # i /\ \A v \in Workers : fds[v] # i
    THEN [inodes EXCEPT ![i] = << >>]
    ELSE inodes

\* Lines 139-143: copy the next source file to the output at this writer's
\* offset; a source that cannot be opened raises, which closes the output
\* and is answered by the handler (line 266); after the last source the
\* output is closed.
ConcatCopy(w) ==
    /\ pc[w] = "c_copy"
    /\ LET src == concat_sources[k[w] + 1]
           pos == SizeOfFirst(concat_sources, k[w])
           closed == [fd EXCEPT ![w] = NoIno]
       IN  IF ~exists[src]
           THEN /\ Fail(w, "FileNotFound", << >>)
                /\ fd' = closed
                /\ ino' = Release(ino, fd[w], tmpIno, closed)
           ELSE /\ LET out == copyfileobj(partData[src], 0, ino[fd[w]], pos, CHUNK_SIZE)
                       last == k[w] + 1 = Len(concat_sources)
                   IN  /\ fd' = IF last THEN closed ELSE fd
                       /\ ino' = IF last
                                 THEN Release([ino EXCEPT ![fd[w]] = out], fd[w], tmpIno, closed)
                                 ELSE [ino EXCEPT ![fd[w]] = out]
                       /\ k' = [k EXCEPT ![w] = IF last THEN 0 ELSE k[w] + 1]
                       /\ Goto(w, IF last THEN "c_stream" ELSE "c_copy")
                /\ UNCHANGED <<pmt, zerr, main, resp>>
    /\ UNCHANGED <<now, svars, fsvars, cachevars, tmpIno, kind, hvars, reqs, envs>>

\* Line 262: stream_file(self, CONCAT_TMP, name) sizes the file the path
\* names, opens it and writes its bytes; a missing file raises and, the
\* finally clause finding nothing to remove, is answered by line 266.
ConcatStream(w) ==
    /\ pc[w] = "c_stream"
    /\ IF tmpIno = NoIno
       THEN Fail(w, "FileNotFound", << >>)
       ELSE /\ resp' = [resp EXCEPT ![w] =
                          [NoResp EXCEPT !.code = 200, !.heads = <<200>>,
                                         !.size = Len(ino[tmpIno]), !.body = ino[tmpIno]]]
            /\ Goto(w, "c_remove")
            /\ UNCHANGED <<pmt, k, zerr, main>>
    /\ UNCHANGED <<now, svars, fsvars, cachevars, tmpvars, kind, hvars, reqs, envs>>

\* Lines 263-267: finally os.remove(CONCAT_TMP), errors ignored; an
\* exception stream_file has raised is then answered by line 267.
ConcatRemove(w) ==
    /\ pc[w] = "c_remove"
    /\ tmpIno' = NoIno
    /\ ino' = Release(ino, tmpIno, NoIno, fd)
    /\ IF resp[w].err # ""
       THEN Finish(w, ErrorAnswer(w, resp[w].err))
       ELSE Goto(w, "done") /\ UNCHANGED <<pmt, k, zerr, main, resp>>
    /\ UNCHANGED <<now, svars, fsvars, cachevars, fd, kind, hvars, reqs, envs>>

\* ------------------------------------------------------------ stream_file, step by step
\* Bytes of an extracted member (only its size is known to the model).
MemberData(m) == [i \in 1..archive[m].size |-> m]

\* The path stream_file is given names a file.
PathExists(w) ==
    IF kind[w] = "concat" THEN tmpIno # NoIno ELSE dirExists /\ main[w] \in tree

\* Bytes of the file the path names.
PathData(w) == IF kind[w] = "concat" THEN ino[tmpIno] ELSE MemberData(main[w])

\* Bytes of the file stream_file holds open.
OpenData(w) == IF kind[w] = "concat" THEN ino[fd[w]] ELSE MemberData(main[w])

\* An exception leaves stream_file: _handle_download_raw answers it at once
\* (line 243), _handle_concat after its finally clause (lines 263-267).
Raise(w, e) ==
    IF kind[w] = "concat"
    THEN /\ resp' = [resp EXCEPT ![w].err = e]
         /\ Goto(w, "c_remove")
         /\ UNCHANGED <<pmt, k, zerr, main>>
    ELSE Finish(w, ErrorAnswer(w, e))

\* Lines 146-156: os.path.getsize(path), then the status line and the
\* headers; end_headers writes them to the socket and raises when the
\* client is gone.
StreamHead(w) ==
    /\ pc[w] \in {"stream", "c_stream"}
    /\ IF ~PathExists(w) THEN Raise(w, "FileNotFound")
       ELSE IF ~conn[w] THEN Raise(w, "BrokenPipe")
       ELSE /\ resp' = [resp EXCEPT ![w] =
                          [@ EXCEPT !.code = 200, !.heads = Append(@, 200),
                                    !.size = Len(PathData(w)), !.main = main[w]]]
            /\ Goto(w, "s_open")
            /\ UNCHANGED <<pmt, k, zerr, main>>
    /\ UNCHANGED <<now, svars, fsvars, cachevars, tmpvars, kind, hvars, reqs, envs>>

\* Line 157: open(path, "rb", buffering=0).
StreamOpen(w) ==
    /\ pc[w] = "s_open"
    /\ IF ~PathExists(w)
       THEN Raise(w, "FileNotFound") /\ UNCHANGED <<rd, fd>>
       ELSE /\ rd' = [rd EXCEPT ![w] = TRUE]
            /\ fd' = IF kind[w] = "concat" THEN [fd EXCEPT ![w] = tmpIno] ELSE fd
            /\ Goto(w, "s_read")
            /\ UNCHANGED <<pmt, k, zerr, main, resp>>
    /\ UNCHANGED <<now, fsvars, cachevars, tmpIno, ino, kind, hvars, conn, listing,
                   preferred, modAt, reqs, envs>>

\* Lines 158-164: read the next chunk at the handle's offset k[w]; an empty
\* read ends the loop, a write to a client that is gone returns; either
\* way the with block closes the file.  Otherwise the chunk is written.
StreamChunk(w) ==
    /\ pc[w] = "s_read"
    /\ LET data == OpenData(w)
           off == k[w]
           n == IF Len(data) - off < CHUNK_SIZE THEN Len(data) - off ELSE CHUNK_SIZE
           closed == [fd EXCEPT ![w] = NoIno]
       IN  IF off >= Len(data) \/ ~conn[w]
           THEN /\ rd' = [rd EXCEPT ![w] = FALSE]
                /\ fd' = closed
                /\ ino' = Release(ino, fd[w], tmpIno, closed)
                /\ IF kind[w] = "concat"
                   THEN /\ Goto(w, "c_remove")
                        /\ k' = [k EXCEPT ![w] = 0]
                        /\ UNCHANGED <<pmt, zerr, main, resp>>
                   ELSE Finish(w, resp[w])
           ELSE /\ resp' = [resp EXCEPT ![w].body = @ \o SubSeq(data, off + 1, off + n)]
                /\ k' = [k EXCEPT ![w] = off + n]
                /\ UNCHANGED <<pc, pmt, zerr, main, rd, fd, ino>>
    /\ UNCHANGED <<now, fsvars, cachevars, tmpIno, kind, hvars, conn, listing,
                   preferred, modAt, reqs, envs>>

\* The client of a request in progress closes its connection.
Disconnect(w) ==
    /\ ~Idle(w)
    /\ conn[w]
    /\ conn' = [conn EXCEPT ![w] = FALSE]
    /\ UNCHANGED <<now, fsvars, cachevars, tmpvars, wvars, hvars, rd, listing,
                   preferred, modAt, reqs, envs>>

\* ------------------------------------------------------------ /health and /diag
\* Line 221: self._ok_text("ok").
Health(w) ==
    /\ pc[w] = "health"
    /\ Finish(w, Answer(w, "ok", 200))
    /\ UNCHANGED <<now, svars, fsvars, cachevars, tmpvars, kind, hvars, reqs, envs>>

\* The report is answered: self._ok_text(diag_report()).
Report(w) ==
    /\ Finish(w, Answer(w, "report", 200))
    /\ listing' = [listing EXCEPT ![w] = {}]

\* An exception leaves diag_report, and do_GET with it: nothing is written.
Escape(w) ==
    /\ Finish(w, [resp[w] EXCEPT !.err = "Unhandled"])
    /\ listing' = [listing EXCEPT ![w] = {}]

\* ensure_7z followed by os.makedirs(CACHE_DIR), as extract_with_7z has it.
Diag7z_makedirs(w) ==
    /\ pc[w] = "d_7z"
    /\ Goto(w, "d_exists")
    /\ cacheDir' = IF have7z THEN TRUE ELSE cacheDir
    /\ UNCHANGED <<now, svars, fsvars, dirExists, dirMtime, tree, tmpvars, kind, pmt, k, zerr,
                   main, resp, hvars, reqs, envs>>

\* Lines 173-176: ensure_7z() inside try/except: either way a line of text.
Diag7z(w) ==
    /\ pc[w] = "d_7z"
    /\ Goto(w, "d_exists")
    /\ UNCHANGED <<now, svars, fsvars, cachevars, tmpvars, kind, pmt, k, zerr,
                   main, resp, hvars, reqs, envs>>

\* The loop over the parts and the final volume goes on to the next file,
\* or to the extract preview after the last one.
DiagNextPart(w) ==
    IF k[w] + 1 = Len(PartPaths)
    THEN Goto(w, "d_isdir") /\ k' = [k EXCEPT ![w] = 0]
    ELSE Goto(w, "d_exists") /\ k' = [k EXCEPT ![w] = k[w] + 1]

\* Lines 181-182, 186-187: os.path.exists(p); an absent file is reported
\* as [MISS].
DiagExists(w) ==
    /\ pc[w] = "d_exists"
    /\ IF exists[PartPaths[k[w] + 1]]
       THEN Goto(w, "d_size") /\ UNCHANGED k
       ELSE DiagNextPart(w)
    /\ UNCHANGED <<now, svars, fsvars, cachevars, tmpvars, kind, pmt, zerr,
                   main, resp, hvars, reqs, envs>>

\* Lines 184, 189: os.path.getsize(p) of the file found present; it raises
\* FileNotFoundError when the file is there no more.
DiagSize(w) ==
    /\ pc[w] = "d_size"
    /\ IF exists[PartPaths[k[w] + 1]]
       THEN DiagNextPart(w) /\ UNCHANGED <<pmt, zerr, main, resp, listing>>
       ELSE Escape(w)
    /\ UNCHANGED <<now, fsvars, cachevars, tmpvars, kind, hvars, conn, rd, preferred,
                   modAt, reqs, envs>>

\* Line 192: os.path.isdir(EXTRACT_DIR).
DiagIsDir(w) ==
    /\ pc[w] = "d_isdir"
    /\ IF dirExists
       THEN Goto(w, "d_walk") /\ UNCHANGED <<pmt, k, zerr, main, resp, listing>>
       ELSE Report(w)
    /\ UNCHANGED <<now, fsvars, cachevars, tmpvars, kind, hvars, conn, rd, preferred,
                   modAt, reqs, envs>>

\* Line 195: os.walk(EXTRACT_DIR) lists the directory and yields its files;
\* a directory that cannot be listed yields nothing (onerror is None).
DiagWalk(w) ==
    /\ pc[w] = "d_walk"
    /\ IF dirExists
       THEN /\ listing' = [listing EXCEPT ![w] = {m \in tree : IsTop(m)}]
            /\ Goto(w, "d_getsize")
            /\ UNCHANGED <<pmt, k, zerr, main, resp>>
       ELSE Report(w)
    /\ UNCHANGED <<now, fsvars, cachevars, tmpvars, kind, hvars, conn, rd, preferred,
                   modAt, reqs, envs>>

\* Lines 196-201: os.path.getsize(path) of the next listed file, at most 8
\* of them; it raises FileNotFoundError when the file is there no more.
DiagGetsize(w) ==
    /\ pc[w] = "d_getsize"
    /\ LET files == SetToSeq(listing[w])
       IN  IF k[w] >= Len(files) \/ k[w] >= 8
           THEN Report(w)
           ELSE IF dirExists /\ files[k[w] + 1] \in tree
                THEN /\ k' = [k EXCEPT ![w] = k[w] + 1]
                     /\ UNCHANGED <<pc, pmt, zerr, main, resp, listing>>
                ELSE Escape(w)
    /\ UNCHANGED <<now, fsvars, cachevars, tmpvars, kind, hvars, conn, rd, preferred,
                   modAt, reqs, envs>>

\* ------------------------------------------------------------ environment
Intervene ==
    /\ envs < MaxEnv
    /\ envs' = envs + 1

\* The wall clock advances.
Tick ==
    /\ Intervene
    /\ now' = now + 1
    /\ UNCHANGED <<fsvars, cachevars, tmpvars, wvars, hvars, svars, reqs>>

\* touch files/<part>: its modification time becomes the current time.
TouchPart(f) ==
    /\ Intervene
    /\ exists[f]
    /\ mtime' = [mtime EXCEPT ![f] = now]
    /\ touchAt' = IF Quiet THEN now ELSE NoTouch
    /\ UNCHANGED <<now, svars, exists, lfs, partData, have7z, archive, archiveOK, cachevars,
                   tmpvars, wvars, published, reqs>>

\* A part is put in place with a modification time of its own (cp -p,
\* rsync -t, an unpacked upload).
ReplacePart(f, t) ==
    /\ Intervene
    /\ exists[f]
    /\ mtime' = [mtime EXCEPT ![f] = t]
    /\ touchAt' = NoTouch
    /\ modAt' = NoTouch
    /\ UNCHANGED <<now, exists, lfs, partData, have7z, archive, archiveOK, cachevars,
                   tmpvars, wvars, published, conn, rd, listing, preferred, reqs>>

\* A part is renamed away, or renamed back.
RenamePart(f) ==
    /\ Intervene
    /\ exists' = [exists EXCEPT ![f] = ~exists[f]]
    /\ UNCHANGED <<now, svars, mtime, lfs, partData, have7z, archive, archiveOK, cachevars,
                   tmpvars, wvars, hvars, reqs>>

\* A part is checked out as a Git LFS pointer.
PlacePointer(f) ==
    /\ Intervene
    /\ exists[f] /\ ~lfs[f]
    /\ lfs' = [lfs EXCEPT ![f] = TRUE]
    /\ mtime' = [mtime EXCEPT ![f] = now]
    /\ touchAt' = NoTouch
    /\ UNCHANGED <<now, svars, exists, partData, have7z, archive, archiveOK, cachevars,
                   tmpvars, wvars, published, reqs>>

\* A part is replaced by a damaged copy: 7z no longer reads the archive
\* to its end.
CorruptPart(f) ==
    /\ Intervene
    /\ exists[f] /\ archiveOK
    /\ archiveOK' = FALSE
    /\ mtime' = [mtime EXCEPT ![f] = now]
    /\ touchAt' = NoTouch
    /\ UNCHANGED <<now, svars, exists, lfs, partData, have7z, archive, cachevars,
                   tmpvars, wvars, published, reqs>>

\* extract_with_7z has decided to extract and has not yet stamped the result.
Running(w) == pc[w] \in {"rmtree", "makedirs", "run7z", "utime"}

\* A part is rewritten in place: its modification time becomes the current
\* time.
ModifyPart(f) ==
    /\ Intervene
    /\ exists[f]
    /\ mtime' = [mtime EXCEPT ![f] = now]
    /\ touchAt' = NoTouch
    /\ modAt' = IF \E w \in Workers : Running(w) THEN now ELSE modAt
    /\ UNCHANGED <<now, exists, lfs, partData, have7z, archive, archiveOK, cachevars,
                   tmpvars, wvars, published, conn, rd, listing, preferred, reqs>>

\* p7zip is removed from, or installed on, the host.
Toggle7z ==
    /\ Intervene
    /\ have7z' = ~have7z
    /\ UNCHANGED <<now, svars, exists, mtime, lfs, partData, archive, archiveOK, cachevars,
                   tmpvars, wvars, hvars, reqs>>

\* rm -rf .cache
DeleteCache ==
    /\ Intervene
    /\ cacheDir
    /\ cacheDir' = FALSE
    /\ dirExists' = FALSE
    /\ dirMtime' = 0
    /\ tree' = {}
    /\ tmpIno' = NoIno
    /\ ino' = Release(ino, tmpIno, NoIno, fd)
    /\ published' = FALSE
    /\ UNCHANGED <<now, svars, fsvars, fd, wvars, touchAt, reqs>>

\* Interventions that may fall into the middle of a request.
EnvAnytime ==
    \/ \E f \in Files : TouchPart(f)
    \/ Toggle7z

\* Interventions made on the deployment as a whole.
EnvDeploy ==
    \/ \E f \in Files, t \in 0..MaxTime : ReplacePart(f, t)
    \/ \E f \in Files : PlacePointer(f)
    \/ \E f \in Files : RenamePart(f)
    \/ \E f \in Files : CorruptPart(f)
    \/ DeleteCache

\* ------------------------------------------------------------ specification
InitHost ==
    /\ now = 0
    /\ exists = [f \in Files |-> TRUE]
    /\ mtime = [f \in Files |-> 0]
    /\ lfs = [f \in Files |-> FALSE]
    /\ have7z = TRUE
    /\ archiveOK = TRUE
    /\ cacheDir = FALSE
    /\ dirExists = FALSE
    /\ dirMtime = 0
    /\ tree = {}
    /\ tmpIno = NoIno
    /\ ino = [i \in Workers |-> << >>]
    /\ pc = [w \in Workers |-> "idle"]
    /\ kind = [w \in Workers |-> "download"]
    /\ pmt = [w \in Workers |-> 0]
    /\ k = [w \in Workers |-> 0]
    /\ zerr = [w \in Workers |-> FALSE]
    /\ fd = [w \in Workers |-> NoIno]
    /\ main = [w \in Workers |-> 0]
    /\ resp = [w \in Workers |-> NoResp]
    /\ touchAt = NoTouch
    /\ published = FALSE
    /\ conn = [w \in Workers |-> TRUE]
    /\ rd = [w \in Workers |-> FALSE]
    /\ listing = [w \in Workers |-> {}]
    /\ modAt = NoTouch
    /\ reqs = 0
    /\ envs = 0

\* The server starts on a complete deployment with an empty cache.
Init ==
    /\ InitHost
    /\ partData = DefaultData
    /\ archive \in Archives
    /\ preferred = PREFERRED_ARTIFACT_NAME

\* One step of extract_with_7z and pick_main_artifact in a thread serving
\* /download-raw or /rebuild.
MaterializeStep(w) ==
    \/ EnsurePartsExist(w)
    \/ EnsureNotLfs(w)
    \/ Ensure7z(w)
    \/ LatestPartsMtime(w)
    \/ CacheCheck(w)
    \/ RmTree(w)
    \/ MakeDirs(w)
    \/ Start7zFails(w)
    \/ Write7zMember(w)
    \/ Exit7z(w)
    \/ Utime(w)
    \/ PickMain(w)

\* One step of a thread serving /download-raw or /rebuild, the artifact
\* being streamed to a client that stays connected.
ExtractStep(w) ==
    \/ MaterializeStep(w)
    \/ StreamMain(w)

\* One step of concat_volumes in a thread serving /concat.
AssembleStep(w) ==
    \/ ConcatMkCache(w)
    \/ EnsurePartsExist(w)
    \/ ConcatOpen(w)
    \/ ConcatCopy(w)

\* One step of a thread serving /concat, the output being streamed to a
\* client that stays connected.
ConcatStep(w) ==
    \/ AssembleStep(w)
    \/ ConcatStream(w)
    \/ ConcatRemove(w)

\* One step of stream_file.
StreamStep(w) ==
    \/ StreamHead(w)
    \/ StreamOpen(w)
    \/ StreamChunk(w)

\* A new request is given the first thread that is free.
FirstFree(w) == Idle(w) /\ \A v \in Workers : Idle(v) => ~(v < w)

ExtractRoutes == {"download", "rebuild"}

\* /download-raw and /rebuild requests served concurrently, one thread
\* each; the deployment is changed between requests, while the clock, touch
\* and the 7z installation act at any time.
Next ==
    \/ \E w \in Workers, r \in ExtractRoutes : FirstFree(w) /\ Begin(w, r)
    \/ \E w \in Workers : ExtractStep(w)
    \/ EnvAnytime
    \/ Quiet /\ EnvDeploy
    \/ Tick

Spec == Init /\ [][Next]_vars

\* The same requests served one after the other.
NextSeq ==
    \/ \E w \in Workers, r \in ExtractRoutes : Quiet /\ FirstFree(w) /\ Begin(w, r)
    \/ \E w \in Workers : ExtractStep(w)
    \/ EnvAnytime
    \/ Quiet /\ EnvDeploy
    \/ Tick

SpecSeq == Init /\ [][NextSeq]_vars

\* /concat requests served one after the other over part files of any
\* contents, which the operator renames or replaces by Git LFS pointers
\* between requests.
InitConcat ==
    /\ InitHost
    /\ partData \in [Files -> DataChoices]
    /\ archive = << >>
    /\ preferred = PREFERRED_ARTIFACT_NAME

NextConcat ==
    \/ \E w \in Workers : Quiet /\ FirstFree(w) /\ Begin(w, "concat")
    \/ \E w \in Workers : ConcatStep(w)
    \/ Quiet /\ \E f \in Files : RenamePart(f)
    \/ Quiet /\ \E f \in Files : PlacePointer(f)
    \/ Quiet /\ DeleteCache

SpecConcat == InitConcat /\ [][NextConcat]_vars

\* /concat requests served concurrently, one thread each, over the parts
\* of the deployment; stream_file is followed step by step.
InitConcatPar ==
    /\ InitHost
    /\ partData = DefaultData
    /\ archive = << >>
    /\ preferred = PREFERRED_ARTIFACT_NAME

NextConcatPar ==
    \/ \E w \in Workers : FirstFree(w) /\ Begin(w, "concat")
    \/ \E w \in Workers : AssembleStep(w)
    \/ \E w \in Workers : StreamStep(w)
    \/ \E w \in Workers : ConcatRemove(w)

SpecConcatPar == InitConcatPar /\ [][NextConcatPar]_vars

\* The trees pick_main_artifact is applied to: up to MaxFiles regular
\* files of up to two bytes, no two of one name in one directory.
FileRecs == [name : {"a", "A", "b"}, top : BOOLEAN, size : 0..2]
PickArchives ==
    UNION {{s \in [1..n -> FileRecs] :
               \A i, j \in 1..n :
                  (i < j) => ~(s[i].name = s[j].name /\ s[i].top = s[j].top)} :
           n \in 0..MaxFiles}
\* Values of PREFERRED_ARTIFACT_NAME: none, names that occur in another
\* case or not at all.
PreferredNames == {None, "a", "B", "c"}

\* A /rebuild request has extracted a tree and is about to call
\* pick_main_artifact on it.
InitPick ==
    /\ now = 0
    /\ exists = [f \in Files |-> TRUE]
    /\ mtime = [f \in Files |-> 0]
    /\ lfs = [f \in Files |-> FALSE]
    /\ partData = DefaultData
    /\ have7z = TRUE
    /\ archiveOK = TRUE
    /\ archive \in PickArchives
    /\ preferred \in PreferredNames
    /\ cacheDir = TRUE
    /\ dirExists = TRUE
    /\ dirMtime = 0
    /\ tree = DOMAIN archive
    /\ tmpIno = NoIno
    /\ ino = [i \in Workers |-> << >>]
    /\ pc = [w \in Workers |-> IF w = 1 THEN "pick" ELSE "idle"]
    /\ kind = [w \in Workers |-> IF w = 1 THEN "rebuild" ELSE "download"]
    /\ pmt = [w \in Workers |-> 0]
    /\ k = [w \in Workers |-> 0]
    /\ zerr = [w \in Workers |-> FALSE]
    /\ fd = [w \in Workers |-> NoIno]
    /\ main = [w \in Workers |-> 0]
    /\ resp = [w \in Workers |-> NoResp]
    /\ touchAt = NoTouch
    /\ published = TRUE
    /\ conn = [w \in Workers |-> TRUE]
    /\ rd = [w \in Workers |-> FALSE]
    /\ listing = [w \in Workers |-> {}]
    /\ modAt = NoTouch
    /\ reqs = 1
    /\ envs = 0

NextPick == \E w \in Workers : PickMain(w)

SpecPick == InitPick /\ [][NextPick]_vars

\* One step of a thread serving /diag.
DiagStep(w) ==
    \/ Diag7z(w)
    \/ DiagExists(w)
    \/ DiagSize(w)
    \/ DiagIsDir(w)
    \/ DiagWalk(w)
    \/ DiagGetsize(w)

DiagRoutes == {"diag", "health", "rebuild"}

\* /diag, /health and /rebuild requests served concurrently, one thread
\* each, while the operator renames parts and installs or removes 7z.
NextDiag ==
    \/ \E w \in Workers, r \in DiagRoutes : FirstFree(w) /\ Begin(w, r)
    \/ \E w \in Workers : DiagStep(w)
    \/ \E w \in Workers : Health(w)
    \/ \E w \in Workers : MaterializeStep(w)
    \/ \E f \in Files : RenamePart(f)
    \/ Toggle7z

SpecDiag == Init /\ [][NextDiag]_vars

\* /download-raw and /rebuild requests served one after the other while
\* parts are rewritten at any moment, and put in place with times of their
\* own between requests.
NextStale ==
    \/ \E w \in Workers, r \in ExtractRoutes : Quiet /\ FirstFree(w) /\ Begin(w, r)
    \/ \E w \in Workers : ExtractStep(w)
    \/ \E f \in Files : ModifyPart(f)
    \/ Quiet /\ \E f \in Files, t \in 0..MaxTime : ReplacePart(f, t)
    \/ Toggle7z
    \/ Tick

SpecStale == Init /\ [][NextStale]_vars

StreamRoutes == {"download", "concat"}

\* /download-raw and /concat requests served one after the other to
\* clients that may go away at any moment; stream_file is followed step by
\* step.
NextStream ==
    \/ \E w \in Workers, r \in StreamRoutes : Quiet /\ FirstFree(w) /\ Begin(w, r)
    \/ \E w \in Workers : MaterializeStep(w)
    \/ \E w \in Workers : AssembleStep(w)
    \/ \E w \in Workers : StreamStep(w)
    \/ \E w \in Workers : ConcatRemove(w)
    \/ \E w \in Workers : Disconnect(w)
    \/ Toggle7z

SpecStream == Init /\ [][NextStream]_vars

\* ------------------------------------------------------------ properties
AbsentParts == {f \in Files : ~exists[f]}
Complete == dirExists /\ tree = Members
Extracting(w) == pc[w] \in {"makedirs", "run7z"}
ExtractionFailed(w) ==
    pc[w] = "done" /\ resp[w].err \in {"SevenZipFailed", "CannotRun7z"}

\* C1: whenever ensure_parts_exist runs while some of the expected files
\* are absent, the request ends with a MissingParts error that lists every
\* absent path once and no present path; with none absent it goes on.
C1_MissingPartsExact ==
    [][\A w \in Workers :
         (pc[w] = "ensure_parts" /\ pc'[w] # "ensure_parts") =>
            IF AbsentParts # {}
            THEN /\ pc'[w] = "done"
                 /\ resp'[w].err = "MissingParts"
                 /\ Range(resp'[w].missing) = {pp(f) : f \in AbsentParts}
                 /\ Len(resp'[w].missing) = Cardinality(AbsentParts)
            ELSE pc'[w] # "done"]_vars

\* A request has failed with a MissingParts error naming two files.
C1_Witness ==
    \E w \in Workers :
        /\ pc[w] = "done"
        /\ resp[w].err = "MissingParts"
        /\ Len(resp[w].missing) >= 2

\* C2: a download that fails because one part is absent is answered with a
\* 4xx status and names that part; any other failure is answered with 5xx.
C2_MissingPartsIs404 ==
    \A w \in Workers :
        (pc[w] = "done" /\ kind[w] = "download" /\ resp[w].code # 200) =>
            IF resp[w].err = "MissingParts"
            THEN resp[w].code \in 400..499 /\ Len(resp[w].missing) >= 1
            ELSE resp[w].code \in 500..599

\* C3: a non-forced request never takes the cache-hit path while another
\* request's extraction into EXTRACT_DIR is in progress.
C3_NoHitDuringRebuild ==
    [][\A w \in Workers :
         (pc[w] = "check" /\ pc'[w] = "hit") =>
            \A v \in Workers \ {w} : ~Extracting(v)]_vars

\* C4: once an extraction has been published, a rebuild that fails during
\* extraction leaves that complete output in place.
C4_FailureKeepsLastGood ==
    \A w \in Workers :
        (ExtractionFailed(w) /\ Quiet /\ published) => Complete

\* C5: the cache-hit path is only taken on a directory whose contents are
\* those of an extraction that ran to its end.
C5_HitOnlyOnCompleteExtraction ==
    \A w \in Workers : pc[w] = "hit" => Complete

\* C6: with valid parts, a working tool, a readable non-empty archive and
\* nobody but the server touching the files, every request succeeds,
\* however the requests interleave.
C6_ConcurrentRebuildsSucceed ==
    (envs = 0 /\ archive # << >>) =>
        \A w \in Workers : pc[w] = "done" => resp[w].code = 200

\* C7: with nothing changed since a successful extraction that produced a
\* file, a non-forced request takes the cache-hit path, not the rebuild.
C7_SecondCallIsCacheHit ==
    \A w \in Workers :
        (envs = 0 /\ published /\ tree # {} /\ ~force(w)
            /\ pc[w] \in {"hit", "rmtree"}) => pc[w] = "hit"

\* C8 as stated: once a part has been touched, the next non-forced request
\* does not take the cache-hit path on the published, complete extraction.
C8_TouchInvalidates ==
    \A w \in Workers :
        (pc[w] = "hit" /\ published /\ Complete) => touchAt = NoTouch

\* C8 amended: after a part has been touched at a time later than the
\* stamp of the cache, the next non-forced request does not take the
\* cache-hit path.
C8_LaterTouchInvalidates ==
    \A w \in Workers : pc[w] = "hit" => ~(touchAt > dirMtime)

\* A non-forced request rebuilds a published, complete cache because a
\* part was touched after its stamp.
C8_Witness ==
    \E w \in Workers :
        /\ pc[w] = "rmtree" /\ ~force(w)
        /\ published /\ Complete /\ \E m \in tree : IsTop(m)
        /\ touchAt > dirMtime

\* The deployment a request needs in order to succeed.
Servable ==
    /\ AbsentParts = {}
    /\ \A f \in Files : ~lfs[f]
    /\ have7z
    /\ archiveOK
    /\ archive # << >>

\* C9: a /rebuild request never takes the cache-hit path, and on a servable
\* deployment it ends with 200 and reports the largest member of the
\* archive, whatever the cache held before.
C9_ForcedRebuildAlwaysRebuilds ==
    /\ [](\A w \in Workers : kind[w] = "rebuild" => pc[w] # "hit")
    /\ [][\A w \in Workers :
            (kind[w] = "rebuild" /\ pc[w] # "done" /\ pc'[w] = "done" /\ Servable) =>
               /\ resp'[w].code = 200
               /\ resp'[w].main = pick_main_artifact(Members)
               /\ resp'[w].size = archive[pick_main_artifact(Members)].size
               /\ Complete']_vars

\* A forced rebuild is about to discard a published cache that is current.
C9_Witness ==
    \E w \in Workers :
        /\ pc[w] = "rmtree" /\ kind[w] = "rebuild"
        /\ published /\ Complete
        /\ cache_is_current(dirMtime, pmt[w], tree)

RECURSIVE BytesUpTo(_)
\* The bytes of the files 1 .. n one after the other.
BytesUpTo(n) == IF n = 0 THEN << >> ELSE BytesUpTo(n - 1) \o partData[n]

RECURSIVE SizeUpTo(_)
SizeUpTo(n) == IF n = 0 THEN 0 ELSE SizeUpTo(n - 1) + Len(partData[n])

\* C10: when concat_volumes returns, the output holds the parts 1 ..
\* PART_COUNT and then the final volume, byte for byte: its length is the
\* sum of their sizes, it starts with the first byte of part 1 and ends
\* with the last byte of the final volume.
C10_ConcatIsOrderedAndExact ==
    \A w \in Workers :
        pc[w] = "c_stream" =>
            /\ tmpIno # NoIno
            /\ LET out == ino[tmpIno]
                   first == partData[part_path(1)]
                   final == partData[last_zip_path]
               IN  /\ out = BytesUpTo(PART_COUNT + 1)
                   /\ Len(out) = SizeUpTo(PART_COUNT + 1)
                   /\ first # << >> => out[1] = first[1]
                   /\ final # << >> => out[Len(out)] = final[Len(final)]

\* concat_volumes has returned over parts that all differ, the first of
\* them longer than one chunk.
C10_Witness ==
    \E w \in Workers :
        /\ pc[w] = "c_stream"
        /\ Len(partData[part_path(1)]) > CHUNK_SIZE
        /\ \A f, g \in Files : f # g => partData[f] # partData[g]
        /\ partData[last_zip_path] # << >>

\* C11: every answer to a /concat request, however the requests
\* interleave, is a 200 whose body is the concatenation of the parts and as
\* long as the Content-Length it announced.
C11_ConcurrentConcatExact ==
    \A w \in Workers :
        (pc[w] = "done" /\ kind[w] = "concat") =>
            /\ resp[w].heads = <<200>>
            /\ resp[w].body = BytesUpTo(PART_COUNT + 1)
            /\ Len(resp[w].body) = resp[w].size

\* C12: a request writes at most one status line and header block.
C12_OneStatusLine ==
    \A w \in Workers : Len(resp[w].heads) <= 1

StreamRequest(w) == kind[w] \in StreamRoutes

\* C13: once the client of a /download-raw or /concat request is gone,
\* nothing more is written to it, and when the handler has returned no
\* exception has escaped, the file it was reading is closed and, for
\* /concat, CONCAT_TMP does not exist.
C13_DisconnectIsClean ==
    /\ [](\A w \in Workers :
            (StreamRequest(w) /\ pc[w] = "done" /\ ~conn[w]) =>
                /\ resp[w].err # "Unhandled"
                /\ ~rd[w]
                /\ fd[w] = NoIno
                /\ kind[w] = "concat" => tmpIno = NoIno)
    /\ [][\A w \in Workers :
            (StreamRequest(w) /\ ~Idle(w) /\ ~conn[w]) =>
                /\ resp'[w].heads = resp[w].heads
                /\ resp'[w].body = resp[w].body]_vars

\* A /concat request has returned after its client went away in the middle
\* of the body.
C13_Witness ==
    \E w \in Workers :
        /\ pc[w] = "done" /\ kind[w] = "concat" /\ ~conn[w]
        /\ resp[w].heads = <<200>>
        /\ Len(resp[w].body) > 0
        /\ Len(resp[w].body) < resp[w].size

\* The parts that are Git LFS pointers.
PlaceholderParts == {f \in Files : exists[f] /\ lfs[f]}

\* C14: a download, rebuild or concat request made while all parts are
\* present and some of them are placeholders ends with a
\* PlaceholderParts error that lists exactly those, and has sent no body.
C14_PlaceholdersRejected ==
    [][\A w \in Workers :
         (pc[w] # "done" /\ pc'[w] = "done" /\ kind[w] \in {"download", "rebuild", "concat"}
            /\ AbsentParts = {} /\ PlaceholderParts # {}) =>
                /\ resp'[w].err = "PlaceholderParts"
                /\ Range(resp'[w].missing) = {pp(f) : f \in PlaceholderParts}
                /\ resp'[w].body = << >>]_vars

\* Position of file m in the walk.
Pos(walk, m) == CHOOSE i \in DOMAIN walk : walk[i] = m

\* The files whose name is the preferred one, whatever the case.
Matches ==
    {m \in tree : preferred # None /\ lower(archive[m].name) = lower(preferred)}

\* C15: pick_main_artifact fails with EmptyExtraction exactly on a tree
\* without files; otherwise it returns a file of the preferred name when
\* one is configured and present in any case, and else the first, in
\* traversal order, of the files of maximal size.
C15_PickMainArtifact ==
    \A w \in Workers :
        (pc[w] = "done" /\ kind[w] = "rebuild") =>
            LET r == resp[w]
                walk == Walk(tree)
            IN  /\ (r.err = "EmptyExtraction") <=> (tree = {})
                /\ tree # {} =>
                      /\ r.code = 200
                      /\ r.main \in tree
                      /\ IF Matches # {}
                         THEN r.main \in Matches
                         ELSE \A m \in tree :
                                 /\ archive[m].size <= archive[r.main].size
                                 /\ archive[m].size = archive[r.main].size
                                       => Pos(walk, r.main) <= Pos(walk, m)

\* The file picked by its preferred name is written in another case and is
\* smaller than another file of the tree.
C15_Witness ==
    \E w \in Workers :
        /\ pc[w] = "done" /\ kind[w] = "rebuild"
        /\ resp[w].main \in Matches
        /\ archive[resp[w].main].name # preferred
        /\ \E m \in tree : archive[m].size > archive[resp[w].main].size

\* Two files tie for the largest size and nothing matches the preferred
\* name.
C15_TieWitness ==
    \E w \in Workers :
        /\ pc[w] = "done" /\ kind[w] = "rebuild" /\ Matches = {}
        /\ \E m \in tree : m # resp[w].main /\ archive[m].size = archive[resp[w].main].size

ReadOnlyRoutes == {"diag", "health"}

\* C16: a /diag request always ends with a 200 report; no exception leaves
\* the handler.
C16_DiagNeverFails ==
    \A w \in Workers :
        (pc[w] = "done" /\ kind[w] = "diag") =>
            resp[w].code = 200 /\ resp[w].err = ""

\* C17: no step of a /health or /diag request changes the part files, the
\* cache directory, the extraction directory or the concat temporary file,
\* and /health answers 200 "ok".
C17_HealthAndDiagReadOnly ==
    /\ [](\A w \in Workers :
            (pc[w] = "done" /\ kind[w] = "health") =>
                resp[w].heads = <<200>> /\ resp[w].text = "ok")
    /\ [][\A w \in Workers :
            (kind'[w] \in ReadOnlyRoutes /\ <<pc[w], k[w]>> # <<pc'[w], k'[w]>>) =>
                UNCHANGED <<exists, mtime, lfs, partData, cacheDir, dirExists,
                            dirMtime, tree, tmpIno, ino>>]_vars

\* A /diag request has sized every part and a file of a published,
\* complete extraction.
C17_Witness ==
    \E w \in Workers :
        /\ kind[w] = "diag" /\ pc[w] = "d_getsize" /\ k[w] >= 1
        /\ published /\ Complete

ValidationSteps == {"ensure_parts", "ensure_not_lfs", "ensure_7z"}
ValidationErrors == {"MissingParts", "PlaceholderParts", "ToolUnavailable"}

\* C18: no validation step of extract_with_7z changes EXTRACT_DIR, and one
\* that fails leaves the whole cache as it was, forced or not.
C18_ValidationFailureKeepsCache ==
    [][\A w \in Workers :
         (kind[w] \in ExtractRoutes /\ pc[w] \in ValidationSteps /\ pc'[w] # pc[w]) =>
            /\ UNCHANGED <<dirExists, dirMtime, tree>>
            /\ pc'[w] = "done" =>
                  /\ resp'[w].err \in ValidationErrors
                  /\ UNCHANGED cacheDir]_vars

\* A forced rebuild has failed in validation over a published, complete
\* extraction.
C18_Witness ==
    \E w \in Workers :
        /\ pc[w] = "done" /\ kind[w] = "rebuild"
        /\ resp[w].err \in ValidationErrors
        /\ published /\ Complete

\* C19 as stated: the cache-hit path is not taken on a published, complete
\* extraction during which a part was modified.
C19_ModifiedDuringExtractionIsStale ==
    \A w \in Workers :
        (pc[w] = "hit" /\ published /\ Complete) => modAt = NoTouch

\* C19 amended: a successful extraction stamps the cache with the parts'
\* modification time it sampled before extracting, and the cache-hit path
\* is not taken after a part was modified during the extraction at a time
\* later than that stamp.
C19_StampIsSampledMtime ==
    /\ [](\A w \in Workers : pc[w] = "hit" => ~(modAt > dirMtime))
    /\ [][\A w \in Workers :
            (pc[w] = "utime" /\ pc'[w] = "pick") => dirMtime' = pmt[w]]_vars

\* A non-forced request rebuilds a published, complete cache because a
\* part was modified, later than the stamp, while it was being extracted.
C19_Witness ==
    \E w \in Workers :
        /\ pc[w] = "rmtree" /\ ~force(w)
        /\ published /\ Complete /\ \E m \in tree : IsTop(m)
        /\ modAt > dirMtime

====
